---- MODULE Spec2Model ----
(***************************************************************************)
(* Model of tornwamp's topic engine (tornwamp/topic/__init__.py):          *)
(* the TopicsManager registry, each Topic's subscriber/publisher maps, and *)
(* the redis bridge of a Topic (connect, SUBSCRIBE, receive loop, drop on  *)
(* connection loss).  One action per handler; a coroutine is cut at its    *)
(* yields, everything between two yields is one atomic step (tornado's     *)
(* IOLoop is single-threaded and cooperative).                             *)
(***************************************************************************)
EXTENDS Integers, Sequences, FiniteSets, TLC

\* ---------------------------------------------------------------- bounds
MaxId == 2          \* subscription ids are 1..MaxId
MaxMsgs == 2        \* event payloads are numbered 1..MaxMsgs
MaxQ == 2           \* envelopes waiting in a topic's redis channel
MaxPending == 2     \* add_subscriber coroutines suspended in bridge setup
MaxOps == 3         \* calls from outside (registry operations, publishes) in one run

Conns == {"A", "B"}
NoConn == "none"
TopicNames == {"chat", "news"}
\* the names the application constructs with redis parameters
BridgedNames == {"chat"}
Ids == 1..MaxId
NoId == 0
Msgs == 1..MaxMsgs
Roles == {"subscriber", "publisher"}

\* messages.PUBLISHER_NODE_ID of this process, and the id of some other process
LocalNode == "N1"
RemoteNode == "N2"

VARIABLES
    registry,              \* TopicsManager keys (it is a dict name -> Topic)
    redis_params,          \* Topic.redis_params is not None
    subscribers,           \* Topic.subscribers: id -> connection
    publishers,            \* Topic.publishers: id -> connection
    subscriber_connection, \* Topic._subscriber_connection: "None" | "client"
    connected,             \* _subscriber_connection.is_connected()
    armed,                 \* outstanding pubsub_pop_message futures of a topic
    subscribeCalls,        \* SUBSCRIBE commands sent to redis for a topic
    brokerQ,               \* envelopes redis has for this node on a channel
    calls,                 \* add_subscriber coroutines suspended at a yield
    pubPending,            \* publish coroutines suspended at the PUBLISH yield
    topicsOf,              \* Connection.topics: role -> topic name -> id
    closes,                \* calls of connection._websocket.close()
    delivered,             \* event messages written to a connection, per payload
    nextMsg,               \* next unused payload number
    ops,                   \* calls from outside done so far
    removed,               \* connections handed to remove_connection
    ret                    \* outcome of the last completed operation

vars == <<registry, redis_params, subscribers, publishers, subscriber_connection,
          connected, armed, subscribeCalls, brokerQ, calls, pubPending, topicsOf,
          closes, delivered, nextMsg, ops, removed, ret>>

bridgeVars == <<subscriber_connection, connected, armed, subscribeCalls, brokerQ>>

\* ------------------------------------------------------------ helpers
\* ret.conn is the connection a call returned or failed for, where a claim
\* speaks of it, and NoConn otherwise
EmptyMap == [s \in Ids |-> NoConn]

IdleCall == [pc |-> "idle", t |-> "chat", c |-> NoConn, sid |-> NoId]

Ret(op, status, c) == [op |-> op, status |-> status, conn |-> c]

\* number of entries of map m (id -> connection) that hold connection c
Count(m, c) == Cardinality({s \in Ids : m[s] = c})

Entries(m) == {s \in Ids : m[s] # NoConn}

FreeSlots == {k \in 1..MaxPending : calls[k].pc = "idle"}

\* Connection.add_subscription_channel / add_publishing_channel
AddChannel(tp, c, role, sid, t) == [tp EXCEPT ![c][role][t] = sid]

\* Connection.remove_subscription_channel / remove_publishing_channel
RemoveChannel(tp, c, role, t) == [tp EXCEPT ![c][role][t] = NoId]

\* customize.deliver_event_messages: one event per subscriber entry, skipping
\* the entries of the connection whose id is publisher_connection_id
DeliverEventMessages(subs, d, m, exclude) ==
    [d EXCEPT ![m] = [c \in Conns |->
        IF exclude # NoConn /\ c = exclude THEN @[c] ELSE @[c] + Count(subs, c)]]

\* ------------------------------------------------------------------ Init
Init ==
    /\ registry = {}
    /\ redis_params = [t \in TopicNames |-> FALSE]
    /\ subscribers = [t \in TopicNames |-> EmptyMap]
    /\ publishers = [t \in TopicNames |-> EmptyMap]
    /\ subscriber_connection = [t \in TopicNames |-> "None"]
    /\ connected = [t \in TopicNames |-> FALSE]
    /\ armed = [t \in TopicNames |-> 0]
    /\ subscribeCalls = [t \in TopicNames |-> 0]
    /\ brokerQ = [t \in TopicNames |-> <<>>]
    /\ calls = [k \in 1..MaxPending |-> IdleCall]
    /\ pubPending = {}
    /\ topicsOf = [c \in Conns |-> [r \in Roles |-> [t \in TopicNames |-> NoId]]]
    /\ closes = [c \in Conns |-> 0]
    /\ delivered = [m \in Msgs |-> [c \in Conns |-> 0]]
    /\ nextMsg = 1
    /\ ops = 0
    /\ removed = {}
    /\ ret = Ret("init", "ok", NoConn)

\* ------------------------------------------------------------ Topic.__init__
\* Topic(name, redis=params) put into the registry by the application
CreateBridgedTopic(t) ==
    /\ t \in BridgedNames
    /\ t \notin registry
    /\ registry' = registry \cup {t}
    /\ redis_params' = [redis_params EXCEPT ![t] = TRUE]
    /\ ret' = Ret("create", "ok", NoConn)
    /\ UNCHANGED <<subscribers, publishers, bridgeVars, calls, pubPending, topicsOf,
                   closes, delivered, nextMsg, ops, removed>>

\* ------------------------------------------ Topic.add_subscriber (176-204)
\* faulty variant: every call on a bridged topic sets the bridge up
SetupNeededAlways(t) == redis_params[t]

\* line 183: the bridge is set up by the call that finds no subscribe client
SetupNeeded(t) == redis_params[t] /\ subscriber_connection[t] = "None"

\* line 204
Registered(subs, sid, c) == [subs EXCEPT ![sid] = c]

\* faulty variant: is_connected() is not asked
CanArmUnchecked(t) == subscriber_connection[t] # "None"

\* lines 206-216, the test of _register_redis_callback
CanArm(t) == subscriber_connection[t] # "None" /\ connected[t]

\* lines 218-229 with Topic.remove_subscriber (168-174): what _drop_subscribers
\* leaves of the connections' reverse indexes and of the close counts
IndexAfterDrop(tp, t) ==
    [c \in Conns |-> IF Count(subscribers[t], c) > 0
                     THEN [tp[c] EXCEPT !["subscriber"][t] = NoId] ELSE tp[c]]

\* faulty variant: the transports are not closed
ClosesAfterDropNone(t) == closes

ClosesAfterDrop(t) == [c \in Conns |-> closes[c] + Count(subscribers[t], c)]

\* ------------------------------------ TopicsManager.add_subscriber (26-37)
\* line 33, subscription_id or create_global_id(): an id names one
\* subscription.  A caller passes an id it already holds in the map (it
\* registers again) or gets an unused one; the code never compares ids, so
\* the unused one is taken to be the least.
InFlight(t) == {k \in 1..MaxPending : calls[k].pc # "idle" /\ calls[k].t = t}

LeastOf(S) == IF S = {} THEN {} ELSE {CHOOSE x \in S : \A y \in S : x <= y}

SubscriberIds(t, c) ==
    LET pending == {calls[k].sid : k \in InFlight(t)}
        mine == {s \in Ids : subscribers[t][s] = c}
                    \cup {calls[k].sid : k \in {j \in InFlight(t) : calls[j].c = c}}
    IN mine \cup LeastOf(Ids \ (Entries(subscribers[t]) \cup pending))

PublisherIds(t, c) ==
    {s \in Ids : publishers[t][s] = c} \cup LeastOf(Ids \ Entries(publishers[t]))

\* No bridge setup: Topic.add_subscriber has no pending yield, the whole
\* call runs in one step.  A missing name gets Topic(topic_name), no redis.
AddSubscriber(t, c, sid) ==
    /\ ops < MaxOps /\ c \notin removed
    /\ sid \in SubscriberIds(t, c)
    /\ ~(t \in registry /\ SetupNeeded(t))
    /\ subscribers' = [subscribers EXCEPT ![t] = Registered(@, sid, c)]
    /\ registry' = registry \cup {t}
    /\ topicsOf' = AddChannel(topicsOf, c, "subscriber", sid, t)
    /\ ops' = ops + 1
    /\ ret' = Ret("add_subscriber", "ok", NoConn)
    /\ UNCHANGED <<redis_params, publishers, bridgeVars, calls, pubPending,
                   closes, delivered, nextMsg, removed>>

\* lines 183-186: create the PubSubClient, start connect(), suspend
AddSubscriberConnect(t, c, sid) ==
    /\ ops < MaxOps /\ c \notin removed
    /\ sid \in SubscriberIds(t, c)
    /\ t \in registry /\ SetupNeeded(t)
    /\ FreeSlots # {}
    /\ LET k == CHOOSE i \in FreeSlots : \A j \in FreeSlots : i <= j
       IN calls' = [calls EXCEPT ![k] = [pc |-> "connect", t |-> t, c |-> c, sid |-> sid]]
    /\ subscriber_connection' = [subscriber_connection EXCEPT ![t] = "client"]
    /\ ops' = ops + 1
    /\ ret' = Ret("add_subscriber", "suspended", NoConn)
    /\ UNCHANGED <<registry, redis_params, subscribers, publishers, connected, armed,
                   subscribeCalls, brokerQ, pubPending, topicsOf, closes, delivered,
                   nextMsg, removed>>

\* line 186 returns true, line 191 sends SUBSCRIBE and suspends
ConnectDone(k) ==
    /\ calls[k].pc = "connect"
    /\ LET t == calls[k].t IN
        /\ connected' = [connected EXCEPT ![t] = TRUE]
        /\ subscribeCalls' = [subscribeCalls EXCEPT ![t] = @ + 1]
    /\ calls' = [calls EXCEPT ![k].pc = "subscribe"]
    /\ ret' = Ret("connect", "ok", NoConn)
    /\ UNCHANGED <<registry, redis_params, subscribers, publishers, subscriber_connection,
                   armed, brokerQ, pubPending, topicsOf, closes, delivered, nextMsg, ops, removed>>

\* faulty variant: the failure is swallowed, the call returns normally
ConnectFailSilent(k) ==
    /\ calls[k].pc = "connect"
    /\ calls' = [calls EXCEPT ![k] = IdleCall]
    /\ ret' = Ret("add_subscriber", "ok", calls[k].c)
    /\ UNCHANGED <<registry, redis_params, subscribers, publishers, bridgeVars,
                   pubPending, topicsOf, closes, delivered, nextMsg, ops, removed>>

\* lines 187-188: connect() returned a false value
ConnectFail(k) ==
    /\ calls[k].pc = "connect"
    /\ calls' = [calls EXCEPT ![k] = IdleCall]
    /\ ret' = Ret("add_subscriber", "RedisUnavailableError", calls[k].c)
    /\ UNCHANGED <<registry, redis_params, subscribers, publishers, bridgeVars,
                   pubPending, topicsOf, closes, delivered, nextMsg, ops, removed>>

\* faulty variant: the caller is registered before the setup result is known
SubscribeFailRegistered(k) ==
    /\ calls[k].pc = "subscribe"
    /\ calls' = [calls EXCEPT ![k] = IdleCall]
    /\ subscribers' = [subscribers EXCEPT ![calls[k].t] = Registered(@, calls[k].sid, calls[k].c)]
    /\ ret' = Ret("add_subscriber", "RedisUnavailableError", calls[k].c)
    /\ UNCHANGED <<registry, redis_params, publishers, bridgeVars,
                   pubPending, topicsOf, closes, delivered, nextMsg, ops, removed>>

\* lines 192-201: pubsub_subscribe raised TypeError or returned a false value
SubscribeFail(k) ==
    /\ calls[k].pc = "subscribe"
    /\ calls' = [calls EXCEPT ![k] = IdleCall]
    /\ ret' = Ret("add_subscriber", "RedisUnavailableError", calls[k].c)
    /\ UNCHANGED <<registry, redis_params, subscribers, publishers, bridgeVars,
                   pubPending, topicsOf, closes, delivered, nextMsg, ops, removed>>

\* lines 203-204, then 35-37: SUBSCRIBE acknowledged; _register_redis_callback
\* arms the first receive, or drops the subscribers when the client is no
\* longer connected; then the caller is registered
SubscribeDone(k) ==
    /\ calls[k].pc = "subscribe"
    /\ LET t == calls[k].t
           c == calls[k].c
           sid == calls[k].sid
       IN IF CanArm(t)
          THEN /\ armed' = [armed EXCEPT ![t] = @ + 1]
               /\ subscribers' = [subscribers EXCEPT ![t] = Registered(@, sid, c)]
               /\ topicsOf' = AddChannel(topicsOf, c, "subscriber", sid, t)
               /\ closes' = closes
          ELSE /\ armed' = armed
               /\ subscribers' = [subscribers EXCEPT ![t] = Registered(EmptyMap, sid, c)]
               /\ topicsOf' = AddChannel(IndexAfterDrop(topicsOf, t), c, "subscriber", sid, t)
               /\ closes' = ClosesAfterDrop(t)
    /\ calls' = [calls EXCEPT ![k] = IdleCall]
    /\ ret' = Ret("add_subscriber", "ok", NoConn)
    /\ UNCHANGED <<registry, redis_params, publishers, subscriber_connection, connected,
                   subscribeCalls, brokerQ, pubPending, delivered, nextMsg, ops, removed>>

\* --------------------------------- TopicsManager.remove_subscriber (39-48)
\* faulty variant: a topic left without subscribers and publishers is deleted
RemoveSubscriberPruning(t, sid) ==
    /\ ops < MaxOps
    /\ IF t \in registry /\ subscribers[t][sid] # NoConn
       THEN /\ subscribers' = [subscribers EXCEPT ![t][sid] = NoConn]
            /\ topicsOf' = RemoveChannel(topicsOf, subscribers[t][sid], "subscriber", t)
            /\ registry' = IF Entries(subscribers[t]) = {sid} /\ Entries(publishers[t]) = {}
                           THEN registry \ {t} ELSE registry
       ELSE UNCHANGED <<subscribers, topicsOf, registry>>
    /\ ops' = ops + 1
    /\ ret' = Ret("remove_subscriber", "ok", NoConn)
    /\ UNCHANGED <<redis_params, publishers, bridgeVars, calls, pubPending,
                   closes, delivered, nextMsg, removed>>

RemoveSubscriber(t, sid) ==
    /\ ops < MaxOps
    /\ IF t \in registry /\ subscribers[t][sid] # NoConn
       THEN /\ subscribers' = [subscribers EXCEPT ![t][sid] = NoConn]
            /\ topicsOf' = RemoveChannel(topicsOf, subscribers[t][sid], "subscriber", t)
       ELSE UNCHANGED <<subscribers, topicsOf>>
    /\ ops' = ops + 1
    /\ ret' = Ret("remove_subscriber", "ok", NoConn)
    /\ UNCHANGED <<registry, redis_params, publishers, bridgeVars, calls, pubPending,
                   closes, delivered, nextMsg, removed>>

\* ------------------------------------- TopicsManager.add_publisher (50-59)
AddPublisher(t, c, sid) ==
    /\ ops < MaxOps /\ c \notin removed
    /\ sid \in PublisherIds(t, c)
    /\ publishers' = [publishers EXCEPT ![t][sid] = c]
    /\ registry' = registry \cup {t}
    /\ topicsOf' = AddChannel(topicsOf, c, "publisher", sid, t)
    /\ ops' = ops + 1
    /\ ret' = Ret("add_publisher", "ok", NoConn)
    /\ UNCHANGED <<redis_params, subscribers, bridgeVars, calls, pubPending,
                   closes, delivered, nextMsg, removed>>

\* ---------------------------------- TopicsManager.remove_publisher (61-68)
RemovePublisher(t, sid) ==
    /\ ops < MaxOps
    /\ IF t \in registry /\ publishers[t][sid] # NoConn
       THEN /\ publishers' = [publishers EXCEPT ![t][sid] = NoConn]
            /\ topicsOf' = RemoveChannel(topicsOf, publishers[t][sid], "publisher", t)
       ELSE UNCHANGED <<publishers, topicsOf>>
    /\ ops' = ops + 1
    /\ ret' = Ret("remove_publisher", "ok", NoConn)
    /\ UNCHANGED <<registry, redis_params, subscribers, bridgeVars, calls, pubPending,
                   closes, delivered, nextMsg, removed>>

\* --------------------------------- TopicsManager.remove_connection (70-80)
\* the map of role r in topic t once the ids of c's reverse index are popped
\* (lines 74-76 and 78-80: one id per topic name, the one the index holds)
AfterRemoveConnection(m, c, r) ==
    [t \in TopicNames |-> [s \in Ids |->
        IF topicsOf[c][r][t] = s THEN NoConn ELSE m[t][s]]]

RemoveConnection(c) ==
    /\ ops < MaxOps /\ c \notin removed
    /\ publishers' = AfterRemoveConnection(publishers, c, "publisher")
    /\ subscribers' = AfterRemoveConnection(subscribers, c, "subscriber")
    /\ removed' = removed \cup {c}
    /\ ops' = ops + 1
    /\ ret' = Ret("remove_connection", "ok", NoConn)
    /\ UNCHANGED <<registry, redis_params, bridgeVars, calls, pubPending, topicsOf,
                   closes, delivered, nextMsg>>

\* ------------------------------------ TopicsManager.get_connection (82-89)
\* line 88 is self[topic_name]: a missing name raises KeyError
GetConnectionStatus(t) == IF t \in registry THEN "ok" ELSE "KeyError"

\* line 89: subscribers.get(id) or publishers.get(id)
GetConnectionValue(t, sid) ==
    IF subscribers[t][sid] # NoConn THEN subscribers[t][sid] ELSE publishers[t][sid]

GetConnection(t, sid) ==
    /\ ops < MaxOps
    /\ ops' = ops + 1
    /\ ret' = Ret("get_connection", GetConnectionStatus(t),
                  IF t \in registry THEN GetConnectionValue(t, sid) ELSE NoConn)
    /\ UNCHANGED <<registry, redis_params, subscribers, publishers, bridgeVars, calls,
                   pubPending, topicsOf, closes, delivered, nextMsg, removed>>

\* -------------------------------------------------- Topic.publish (150-166)
\* messages.BroadcastMessage as it travels through redis
Envelope(type, topic, node, origin, m) ==
    [type |-> type, topic |-> topic, node |-> node, origin |-> origin, m |-> m]

\* faulty variants of the local delivery: nobody left out / nothing delivered
PublishDeliveryToAll(t, m, origin) == DeliverEventMessages(subscribers[t], delivered, m, NoConn)

PublishDeliveryLate(t, m, origin) == delivered

\* lines 160-161: local delivery, publisher_connection_id is left out
PublishDelivery(t, m, origin) == DeliverEventMessages(subscribers[t], delivered, m, origin)

\* line 162: self._publisher_connection is not None
HasPublisherConnection(t) == redis_params[t]

\* redis forwards a channel's messages to this node once its SUBSCRIBE is sent
\* and while the subscribe client is connected
BrokerSubscribed(t) == subscribeCalls[t] > 0 /\ connected[t]

Publish(t, origin) ==
    /\ ops < MaxOps
    /\ t \in registry
    /\ nextMsg <= MaxMsgs
    /\ ops' = ops + 1
    /\ delivered' = PublishDelivery(t, nextMsg, origin)
    /\ nextMsg' = nextMsg + 1
    /\ IF HasPublisherConnection(t)
       THEN /\ pubPending' = pubPending \cup {[t |-> t, m |-> nextMsg, origin |-> origin]}
            /\ ret' = Ret("publish", "suspended", NoConn)
       ELSE /\ pubPending' = pubPending
            /\ ret' = Ret("publish", "ok", origin)
    /\ UNCHANGED <<registry, redis_params, subscribers, publishers, bridgeVars, calls,
                   topicsOf, closes, removed>>

\* lines 163-166: PUBLISH answered with the number of receivers
PublishAck(p) ==
    /\ p \in pubPending
    /\ pubPending' = pubPending \ {p}
    /\ IF BrokerSubscribed(p.t)
       THEN /\ Len(brokerQ[p.t]) < MaxQ
            /\ brokerQ' = [brokerQ EXCEPT ![p.t] =
                              Append(@, Envelope("message", p.t, LocalNode, p.origin, p.m))]
       ELSE brokerQ' = brokerQ
    /\ ret' = Ret("publish", "acknowledged", NoConn)
    /\ UNCHANGED <<registry, redis_params, subscribers, publishers, subscriber_connection,
                   connected, armed, subscribeCalls, calls, topicsOf, closes, delivered,
                   nextMsg, ops, removed>>

\* faulty variant: the ConnectionError is returned as if it were the answer
PublishFailSwallowed(p) ==
    /\ p \in pubPending
    /\ pubPending' = pubPending \ {p}
    /\ ret' = Ret("publish", "acknowledged", NoConn)
    /\ UNCHANGED <<registry, redis_params, subscribers, publishers, bridgeVars, calls,
                   topicsOf, closes, delivered, nextMsg, ops, removed>>

\* lines 164-165: PUBLISH answered with a tornadis.ConnectionError
PublishFail(p) ==
    /\ p \in pubPending
    /\ pubPending' = pubPending \ {p}
    /\ ret' = Ret("publish", "RedisUnavailableError", NoConn)
    /\ UNCHANGED <<registry, redis_params, subscribers, publishers, bridgeVars, calls,
                   topicsOf, closes, delivered, nextMsg, ops, removed>>

\* what another process can put on the channel: an event of one of its
\* connections, a message of another type, an envelope naming another topic
RemoteEnvelopes(t) ==
    {Envelope("message", t, RemoteNode, o, nextMsg) : o \in Conns}
        \cup {Envelope("pmessage", t, RemoteNode, NoConn, nextMsg)}
        \cup {Envelope("message", u, RemoteNode, NoConn, nextMsg) : u \in TopicNames \ {t}}

\* another broker process publishes on the channel (well formed or not)
RemotePublish(t, e) ==
    /\ ops < MaxOps
    /\ BrokerSubscribed(t)
    /\ nextMsg <= MaxMsgs
    /\ ops' = ops + 1
    /\ Len(brokerQ[t]) < MaxQ
    /\ brokerQ' = [brokerQ EXCEPT ![t] =
                      Append(@, e)]
    /\ nextMsg' = nextMsg + 1
    /\ UNCHANGED <<registry, redis_params, subscribers, publishers, subscriber_connection,
                   connected, armed, subscribeCalls, calls, pubPending, topicsOf, closes,
                   delivered, removed, ret>>

\* the subscribe client loses its connection to redis
LoseConnection(t) ==
    /\ subscriber_connection[t] # "None" /\ connected[t]
    /\ connected' = [connected EXCEPT ![t] = FALSE]
    /\ UNCHANGED <<registry, redis_params, subscribers, publishers, subscriber_connection,
                   armed, subscribeCalls, brokerQ, calls, pubPending, topicsOf, closes,
                   delivered, nextMsg, ops, removed, ret>>

\* --------------------------------------- Topic._on_redis_message (238-249)
\* faulty variant: the callback is not registered again
RearmedNever(t) == armed[t] - 1

\* _register_redis_callback (206-216) at the end of a receive whose future is
\* used up: one more receive when the client is connected, else the drop
Rearmed(t) == IF CanArm(t) THEN armed[t] ELSE armed[t] - 1

SubscribersAfterRearm(t) == IF CanArm(t) THEN subscribers[t] ELSE EmptyMap

RegisterRedisCallback(t) ==
    /\ armed' = [armed EXCEPT ![t] = Rearmed(t)]
    /\ subscribers' = [subscribers EXCEPT ![t] = SubscribersAfterRearm(t)]
    /\ topicsOf' = IF CanArm(t) THEN topicsOf ELSE IndexAfterDrop(topicsOf, t)
    /\ closes' = IF CanArm(t) THEN closes ELSE ClosesAfterDrop(t)

\* faulty variant: the topic's publishers are dropped with its subscribers
ReceiveErrorDropsPublishers(t) ==
    /\ armed[t] > 0
    /\ armed' = [armed EXCEPT ![t] = @ - 1]
    /\ connected' = [connected EXCEPT ![t] = FALSE]
    /\ subscribers' = [subscribers EXCEPT ![t] = EmptyMap]
    /\ publishers' = [publishers EXCEPT ![t] = EmptyMap]
    /\ topicsOf' = IndexAfterDrop(topicsOf, t)
    /\ closes' = ClosesAfterDrop(t)
    /\ ret' = Ret("on_redis_message", "error", NoConn)
    /\ UNCHANGED <<registry, redis_params, subscriber_connection,
                   subscribeCalls, brokerQ, calls, pubPending, delivered, nextMsg, ops,
                   removed>>

\* lines 240-242: the receive returned ConnectionError or ClientError
ReceiveError(t) ==
    /\ armed[t] > 0
    /\ armed' = [armed EXCEPT ![t] = @ - 1]
    /\ connected' = [connected EXCEPT ![t] = FALSE]
    /\ subscribers' = [subscribers EXCEPT ![t] = EmptyMap]
    /\ topicsOf' = IndexAfterDrop(topicsOf, t)
    /\ closes' = ClosesAfterDrop(t)
    /\ ret' = Ret("on_redis_message", "error", NoConn)
    /\ UNCHANGED <<registry, redis_params, publishers, subscriber_connection,
                   subscribeCalls, brokerQ, calls, pubPending, delivered, nextMsg, ops,
                   removed>>

\* lines 248-249: the receive timed out (result None)
ReceiveTimeout(t) ==
    /\ armed[t] > 0
    /\ RegisterRedisCallback(t)
    /\ ret' = Ret("on_redis_message", "timeout", NoConn)
    /\ UNCHANGED <<registry, redis_params, publishers, subscriber_connection, connected,
                   subscribeCalls, brokerQ, calls, pubPending, delivered, nextMsg, ops,
                   removed>>

\* lines 246 and 233-234: the two assertions on a received message
WellFormed(t, e) == e.type = "message" /\ e.topic = t

\* faulty variant: the node id of the envelope is not looked at
FromAnyNode(e) == TRUE

\* line 235: msg.publisher_node_id != messages.PUBLISHER_NODE_ID.hex
FromOtherNode(e) == e.node # LocalNode

\* faulty variant: the origin connection is left out as in a local publish
BridgeDeliveryExcluding(t, e) ==
    DeliverEventMessages(SubscribersAfterRearm(t), delivered, e.m, e.origin)

\* line 236: delivery of a received event, nobody is left out
BridgeDelivery(t, e) == DeliverEventMessages(SubscribersAfterRearm(t), delivered, e.m, NoConn)

\* lines 243-247 and _on_event_message (231-236): re-arm first, then process
ReceiveMessage(t) ==
    /\ armed[t] > 0
    /\ brokerQ[t] # <<>>
    /\ LET e == Head(brokerQ[t]) IN
        /\ brokerQ' = [brokerQ EXCEPT ![t] = Tail(@)]
        /\ RegisterRedisCallback(t)
        /\ IF ~WellFormed(t, e)
           THEN /\ delivered' = delivered
                /\ ret' = Ret("on_redis_message", "AssertionError", NoConn)
           ELSE IF FromOtherNode(e)
           THEN /\ delivered' = BridgeDelivery(t, e)
                /\ ret' = Ret("on_redis_message", "delivered", e.origin)
           ELSE /\ delivered' = delivered
                /\ ret' = Ret("on_redis_message", "discarded", NoConn)
    /\ UNCHANGED <<registry, redis_params, publishers, subscriber_connection, connected,
                   subscribeCalls, calls, pubPending, nextMsg, ops, removed>>

\* ------------------------------------------------------------------ Next
Next ==
    \/ \E t \in TopicNames : CreateBridgedTopic(t)
    \/ \E t \in TopicNames, c \in Conns, sid \in Ids : AddSubscriber(t, c, sid)
    \/ \E t \in TopicNames, c \in Conns, sid \in Ids : AddSubscriberConnect(t, c, sid)
    \/ \E k \in 1..MaxPending : ConnectDone(k)
    \/ \E k \in 1..MaxPending : ConnectFail(k)
    \/ \E k \in 1..MaxPending : SubscribeDone(k)
    \/ \E k \in 1..MaxPending : SubscribeFail(k)
    \/ \E t \in TopicNames, sid \in Ids : RemoveSubscriber(t, sid)
    \/ \E t \in TopicNames, c \in Conns, sid \in Ids : AddPublisher(t, c, sid)
    \/ \E t \in TopicNames, sid \in Ids : RemovePublisher(t, sid)
    \/ \E c \in Conns : RemoveConnection(c)
    \/ \E t \in TopicNames, sid \in Ids : GetConnection(t, sid)
    \/ \E t \in TopicNames, origin \in Conns : Publish(t, origin)
    \/ \E p \in pubPending : PublishAck(p)
    \/ \E p \in pubPending : PublishFail(p)
    \/ \E t \in TopicNames : \E e \in RemoteEnvelopes(t) : RemotePublish(t, e)
    \/ \E t \in TopicNames : LoseConnection(t)
    \/ \E t \in TopicNames : ReceiveError(t)
    \/ \E t \in TopicNames : ReceiveTimeout(t)
    \/ \E t \in TopicNames : ReceiveMessage(t)

Spec == Init /\ [][Next]_vars

\* ================================================================ claims
RECURSIVE SumOver(_, _)
SumOver(f, S) == IF S = {} THEN 0
                 ELSE LET x == CHOOSE y \in S : TRUE IN f[x] + SumOver(f, S \ {x})

\* events of payload m written so far, all connections together
Total(d, m) == SumOver(d[m], Conns)

\* ---------------------------------------------------------------------- C1
\* C1 as stated: a publish on a topic without bridge delivers the payload once
\* to every subscriber that is not the originating connection, none to the
\* originator, N-1 deliveries in all when the originator is among the N
\* subscriber entries and N otherwise, and it returns without suspending.
C1_Original ==
    [][\A t \in TopicNames, o \in Conns :
        (Publish(t, o) /\ ~redis_params[t]) =>
            /\ ret'.status = "ok" /\ pubPending' = pubPending
            /\ delivered'[nextMsg][o] = delivered[nextMsg][o]
            /\ \A c \in Conns \ {o} : Count(subscribers[t], c) > 0 =>
                   delivered'[nextMsg][c] = delivered[nextMsg][c] + 1
            /\ Total(delivered', nextMsg) - Total(delivered, nextMsg) =
                   IF Count(subscribers[t], o) > 0
                   THEN Cardinality(Entries(subscribers[t])) - 1
                   ELSE Cardinality(Entries(subscribers[t]))]_vars

\* C1 amended: a publish on a topic without bridge delivers the payload once
\* per subscriber entry whose connection is not the originator (a connection
\* gets one copy per subscription it holds), none to the originator, N-k
\* deliveries in all where k is the number of entries of the originator, and
\* it returns without suspending.
C1_LocalPublish ==
    [][\A t \in TopicNames, o \in Conns :
        (Publish(t, o) /\ ~redis_params[t]) =>
            /\ ret'.status = "ok" /\ pubPending' = pubPending
            /\ delivered'[nextMsg][o] = delivered[nextMsg][o]
            /\ \A c \in Conns \ {o} :
                   delivered'[nextMsg][c] = delivered[nextMsg][c] + Count(subscribers[t], c)
            /\ Total(delivered', nextMsg) - Total(delivered, nextMsg) =
                   Cardinality(Entries(subscribers[t])) - Count(subscribers[t], o)]_vars

\* A and B subscribed to a topic without bridge, the last call was a publish by
\* one of them that returned at once: the other one has the event, the originator not
C1_Witness ==
    \E t \in registry, o \in Conns, c \in Conns :
        /\ ~redis_params[t] /\ c # o /\ nextMsg > 1
        /\ ret = Ret("publish", "ok", o)
        /\ Count(subscribers[t], o) = 1 /\ Count(subscribers[t], c) = 1
        /\ delivered[nextMsg - 1][c] = 1 /\ delivered[nextMsg - 1][o] = 0

\* ---------------------------------------------------------------------- C2
\* C2 as stated: once the subscribe calls made on a bridged topic are over,
\* exactly one SUBSCRIBE has been sent for the topic.
C2_Original ==
    \A t \in TopicNames :
        (redis_params[t] /\ subscriber_connection[t] = "client" /\ InFlight(t) = {})
            => subscribeCalls[t] = 1

\* C2 amended: on a bridged topic at most one SUBSCRIBE is ever sent and at
\* most one subscribe call is in bridge setup, however the calls interleave;
\* a SUBSCRIBE is sent only by a call that created the subscribe client, and a
\* topic whose setup call is over has sent one or none (none when connect failed).
C2_AtMostOneSubscribe ==
    \A t \in TopicNames :
        /\ subscribeCalls[t] <= 1
        /\ Cardinality(InFlight(t)) <= 1
        /\ subscribeCalls[t] = 1 => (redis_params[t] /\ subscriber_connection[t] = "client")
        /\ (\E k \in InFlight(t) : calls[k].pc = "subscribe") => subscribeCalls[t] = 1

\* a second subscriber was registered while the first call was still waiting
\* for the answer to its SUBSCRIBE
C2_Witness ==
    \E k \in 1..MaxPending :
        /\ calls[k].pc = "subscribe"
        /\ subscribeCalls[calls[k].t] = 1
        /\ Entries(subscribers[calls[k].t]) # {}

\* ---------------------------------------------------------------------- C3
BridgeDown(t) ==
    /\ redis_params[t] /\ subscriber_connection[t] = "client"
    /\ InFlight(t) = {} /\ armed[t] = 0

\* C3: a subscribe call on a bridged topic whose bridge is down (the setup
\* failed, or the receive loop ended on an error) connects and subscribes
\* again before it registers the subscriber.
C3_Claim ==
    [][\A t \in TopicNames, c \in Conns, sid \in Ids :
        (BridgeDown(t) /\ (AddSubscriber(t, c, sid) \/ AddSubscriberConnect(t, c, sid))) =>
            /\ \E k \in 1..MaxPending : calls'[k].pc = "connect" /\ calls'[k].t = t
            /\ subscribers'[t] = subscribers[t]]_vars

\* ---------------------------------------------------------------------- C4
\* C4: a subscribe call that fails at connect or at SUBSCRIBE ends with
\* RedisUnavailableError and changes neither the subscriber maps nor any
\* connection's reverse index, so the caller is not registered by it.
C4_FailedSubscribe ==
    [][\A k \in 1..MaxPending :
        (ConnectFail(k) \/ SubscribeFail(k)) =>
            /\ ret' = Ret("add_subscriber", "RedisUnavailableError", calls[k].c)
            /\ subscribers' = subscribers
            /\ topicsOf' = topicsOf
            /\ (subscribers[calls[k].t][calls[k].sid] # calls[k].c =>
                    subscribers'[calls[k].t][calls[k].sid] # calls[k].c)]_vars

\* the call of a connection failed and the connection is registered nowhere,
\* while a subscriber that came during the setup is still there
C4_Witness ==
    /\ ret.op = "add_subscriber" /\ ret.status = "RedisUnavailableError"
    /\ \A t \in TopicNames : Count(subscribers[t], ret.conn) = 0
                              /\ topicsOf[ret.conn]["subscriber"][t] = NoId
    /\ \E t \in TopicNames : redis_params[t] /\ ~connected[t]
                              /\ Entries(subscribers[t]) # {}

\* ---------------------------------------------------------------------- C5
\* C5: remove_connection(c) removes every entry that holds c, in every topic
\* and in both maps, and leaves every entry of another connection as it was.
C5_Claim ==
    [][\A c \in Conns : RemoveConnection(c) =>
        \A t \in TopicNames, s \in Ids :
            /\ subscribers'[t][s] = IF subscribers[t][s] = c THEN NoConn ELSE subscribers[t][s]
            /\ publishers'[t][s] = IF publishers[t][s] = c THEN NoConn ELSE publishers[t][s]]_vars

\* ---------------------------------------------------------------------- C6
\* C6 as stated: a receive that returns a transport error empties the topic's
\* subscriber map, closes the transport of every connection that was a
\* subscriber exactly once, clears these connections' reverse-index entry for
\* the topic, and arms no further receive.
C6_Original ==
    [][\A t \in TopicNames : ReceiveError(t) =>
        /\ subscribers'[t] = EmptyMap
        /\ armed'[t] = 0
        /\ \A c \in Conns : Count(subscribers[t], c) > 0 =>
               /\ closes'[c] = closes[c] + 1
               /\ topicsOf'[c]["subscriber"][t] = NoId]_vars

\* C6 amended: a receive that returns a transport error empties the topic's
\* subscriber map, closes the transport of every connection that was a
\* subscriber once per subscriber entry it held (so at least once, and no
\* transport of another connection), clears these connections' reverse-index
\* entry for the topic, and arms no further receive.
C6_ReceiveError ==
    [][\A t \in TopicNames : ReceiveError(t) =>
        /\ subscribers'[t] = EmptyMap
        /\ armed'[t] = 0
        /\ \A c \in Conns :
               /\ closes'[c] = closes[c] + Count(subscribers[t], c)
               /\ Count(subscribers[t], c) > 0 => topicsOf'[c]["subscriber"][t] = NoId]_vars

\* the receive of a bridged topic failed while one connection held two of its
\* subscriptions: the map is empty and that connection was closed twice
C6_Witness ==
    /\ ret.op = "on_redis_message" /\ ret.status = "error"
    /\ \E t \in TopicNames, c \in Conns :
        /\ redis_params[t] /\ subscribers[t] = EmptyMap /\ armed[t] = 0
        /\ closes[c] = 2 /\ topicsOf[c]["subscriber"][t] = NoId

\* ---------------------------------------------------------------------- C7
\* C7: a well-formed envelope received on a topic's bridge causes no delivery
\* when its node id is this node's, and otherwise one delivery per entry of
\* the topic's subscriber map, the origin connection included.
C7_BridgeDelivery ==
    [][\A t \in TopicNames :
        (ReceiveMessage(t) /\ WellFormed(t, Head(brokerQ[t]))) =>
            LET e == Head(brokerQ[t]) IN
            IF e.node = LocalNode
            THEN delivered' = delivered
            ELSE /\ \A c \in Conns :
                       delivered'[e.m][c] = delivered[e.m][c] + Count(subscribers'[t], c)
                 /\ \A m \in Msgs \ {e.m} : delivered'[m] = delivered[m]]_vars

\* an envelope of another node whose origin id is that of a local subscriber
\* was received: this subscriber and another one both have the event
C7_Witness ==
    /\ ret.op = "on_redis_message" /\ ret.status = "delivered"
    /\ \E t \in TopicNames, c \in Conns \ {ret.conn}, m \in Msgs :
        /\ Count(subscribers[t], ret.conn) = 1 /\ Count(subscribers[t], c) = 1
        /\ delivered[m][ret.conn] = 1 /\ delivered[m][c] = 1

\* ---------------------------------------------------------------------- C8
\* C8: in the step of Topic.publish that hands the message to redis, every
\* subscriber entry of the topic that is not the originator's has already
\* been given the event.
C8_LocalBeforeBroker ==
    [][\A t \in TopicNames, o \in Conns :
        (Publish(t, o) /\ redis_params[t]) =>
            /\ [t |-> t, m |-> nextMsg, origin |-> o] \in pubPending' \ pubPending
            /\ \A c \in Conns \ {o} :
                   delivered'[nextMsg][c] = delivered[nextMsg][c] + Count(subscribers[t], c)]_vars

\* a PUBLISH is waiting for its answer and a local subscriber has the event
C8_Witness ==
    \E p \in pubPending, c \in Conns :
        /\ c # p.origin /\ redis_params[p.t]
        /\ Count(subscribers[p.t], c) > 0 /\ delivered[p.m][c] > 0

\* ---------------------------------------------------------------------- C9
\* C9: get_connection never raises; it returns nothing when the id or the
\* topic is missing.
C9_Claim ==
    ret.op = "get_connection" => ret.status = "ok"

\* --------------------------------------------------------------------- C10
\* C10: after a received message of the wrong type or with a topic name other
\* than the channel's, no receive is outstanding for the topic.
C10_Claim ==
    [][\A t \in TopicNames :
        (ReceiveMessage(t) /\ ~WellFormed(t, Head(brokerQ[t]))) => armed'[t] = 0]_vars

\* --------------------------------------------------------------------- C11
\* C11: a topic's bridge never has more than one receive outstanding; the
\* acknowledged SUBSCRIBE and every receive that ends with a message or a
\* timeout leave exactly one outstanding while the subscribe client is
\* connected, and only a receive error or a lost connection ends the loop.
\* A received message is the oldest one of the channel, one per step, the
\* later ones stay in their order, and only its payload is delivered; the next
\* receive is armed before the message is processed: it is outstanding also
\* when the processing raises, and when the client is found disconnected the
\* subscribers are dropped before anything is delivered.
C11_SingleFlight ==
    [][\A t \in TopicNames :
        /\ armed'[t] <= 1
        /\ (\E k \in 1..MaxPending : SubscribeDone(k) /\ calls[k].t = t /\ CanArm(t))
               => armed'[t] = 1
        /\ ((ReceiveTimeout(t) \/ ReceiveMessage(t)) /\ CanArm(t)) => armed'[t] = 1
        /\ armed'[t] < armed[t] => (ReceiveError(t) \/ ~CanArm(t))
        /\ ReceiveMessage(t) =>
               /\ brokerQ'[t] = Tail(brokerQ[t])
               /\ \A m \in Msgs \ {Head(brokerQ[t]).m} : delivered'[m] = delivered[m]
               /\ ~CanArm(t) => delivered' = delivered]_vars

\* two envelopes were waiting on a channel; the first one has been delivered,
\* the second one is still waiting and a receive is outstanding for it
C11_Witness ==
    /\ ret.op = "on_redis_message" /\ ret.status = "delivered"
    /\ \E t \in TopicNames, c \in Conns :
        /\ armed[t] = 1 /\ Len(brokerQ[t]) = 1 /\ brokerQ[t][1].m = 2
        /\ delivered[1][c] = 1 /\ delivered[2][c] = 0

\* --------------------------------------------------------------------- C12
\* C12: an add_subscriber call that fails in the bridge setup (connect or
\* SUBSCRIBE) ends with RedisUnavailableError for its caller, and the topic
\* it named is in the registry after the failure.  It was there before the
\* call as well: only a topic built with redis parameters can fail, and
\* add_subscriber itself builds a missing topic without them.
C12_FailurePropagates ==
    [][\A k \in 1..MaxPending :
        (ConnectFail(k) \/ SubscribeFail(k)) =>
            /\ ret'.op = "add_subscriber" /\ ret'.status = "RedisUnavailableError"
            /\ calls[k].t \in registry'
            /\ calls[k].t \in registry /\ redis_params[calls[k].t]]_vars

\* a call failed at SUBSCRIBE: its topic is in the registry, the SUBSCRIBE
\* was sent, no call is in setup any more and no receive is outstanding
C12_Witness ==
    /\ ret.op = "add_subscriber" /\ ret.status = "RedisUnavailableError"
    /\ \E t \in registry :
        /\ redis_params[t] /\ subscribeCalls[t] = 1
        /\ InFlight(t) = {} /\ armed[t] = 0

\* --------------------------------------------------------------------- C13
\* the reverse indexes once the entry of role r that holds id sid on topic t
\* is cleared from connection c's index
IndexWithout(c, r, t, sid) ==
    IF topicsOf[c][r][t] = sid THEN [topicsOf EXCEPT ![c][r][t] = NoId] ELSE topicsOf

\* C13: remove_subscriber(t, sid) and remove_publisher(t, sid) change nothing
\* when the topic or the id is missing; otherwise they remove the entry of
\* that id from the topic's map and clear that subscription from the owning
\* connection's reverse index; every other map entry and every other index
\* entry, another subscription of the same connection included, stays.
C13_Claim ==
    [][\A t \in TopicNames, sid \in Ids :
        /\ RemoveSubscriber(t, sid) =>
            /\ registry' = registry /\ publishers' = publishers
            /\ IF t \in registry /\ subscribers[t][sid] # NoConn
               THEN /\ subscribers' = [subscribers EXCEPT ![t][sid] = NoConn]
                    /\ topicsOf' = IndexWithout(subscribers[t][sid], "subscriber", t, sid)
               ELSE subscribers' = subscribers /\ topicsOf' = topicsOf
        /\ RemovePublisher(t, sid) =>
            /\ registry' = registry /\ subscribers' = subscribers
            /\ IF t \in registry /\ publishers[t][sid] # NoConn
               THEN /\ publishers' = [publishers EXCEPT ![t][sid] = NoConn]
                    /\ topicsOf' = IndexWithout(publishers[t][sid], "publisher", t, sid)
               ELSE publishers' = publishers /\ topicsOf' = topicsOf]_vars

\* --------------------------------------------------------------------- C14
\* C14 as stated: a receive that times out arms the next receive and changes
\* nothing else: the subscriber maps, the publisher maps, the bridge state
\* and the transports are after the step what they were before.
C14_Original ==
    [][\A t \in TopicNames : ReceiveTimeout(t) =>
        /\ armed'[t] = 1
        /\ subscribers' = subscribers /\ publishers' = publishers
        /\ subscriber_connection' = subscriber_connection /\ connected' = connected
        /\ subscribeCalls' = subscribeCalls /\ brokerQ' = brokerQ
        /\ closes' = closes /\ topicsOf' = topicsOf]_vars

\* C14 amended: a receive that times out while the subscribe client is
\* connected arms the next receive and changes nothing else.  When the client
\* is no longer connected it arms nothing and drops the topic's subscribers as
\* a receive error does (map emptied, one close per entry, index entries
\* cleared); the publisher maps, the other topics and the rest of the bridge
\* state stay in both cases, and nothing is delivered.
C14_Timeout ==
    [][\A t \in TopicNames : ReceiveTimeout(t) =>
        /\ publishers' = publishers /\ registry' = registry /\ delivered' = delivered
        /\ subscriber_connection' = subscriber_connection /\ connected' = connected
        /\ subscribeCalls' = subscribeCalls /\ brokerQ' = brokerQ
        /\ \A u \in TopicNames \ {t} : subscribers'[u] = subscribers[u] /\ armed'[u] = armed[u]
        /\ IF connected[t]
           THEN /\ armed'[t] = 1
                /\ subscribers' = subscribers /\ closes' = closes /\ topicsOf' = topicsOf
           ELSE /\ armed'[t] = 0
                /\ subscribers'[t] = EmptyMap
                /\ \A c \in Conns :
                       /\ closes'[c] = closes[c] + Count(subscribers[t], c)
                       /\ topicsOf'[c]["publisher"] = topicsOf[c]["publisher"]
                       /\ \A u \in TopicNames :
                              topicsOf'[c]["subscriber"][u] =
                                  IF u = t /\ Count(subscribers[t], c) > 0
                                  THEN NoId ELSE topicsOf[c]["subscriber"][u]]_vars

\* the last receive timed out on a client that had lost its connection: the
\* subscriber was dropped and its transport closed, no receive is outstanding
C14_Witness ==
    /\ ret.op = "on_redis_message" /\ ret.status = "timeout"
    /\ \E t \in TopicNames, c \in Conns :
        /\ ~connected[t] /\ armed[t] = 0 /\ subscribers[t] = EmptyMap
        /\ closes[c] = 1

\* --------------------------------------------------------------------- C15
\* C15: a publish on a bridged topic whose PUBLISH comes back as a connection
\* error ends with RedisUnavailableError, and one whose PUBLISH is answered
\* ends with the answer; neither outcome touches the subscriber or publisher
\* maps or delivers anything, and every PUBLISH that waits for its answer
\* was issued by a step that had delivered the event to the local subscriber
\* entries first, so the local delivery stands when the failure arrives.
C15_PublishOutcome ==
    [][/\ \A p \in pubPending : PublishFail(p) =>
            /\ ret' = Ret("publish", "RedisUnavailableError", NoConn)
            /\ p \notin pubPending'
            /\ subscribers' = subscribers /\ publishers' = publishers
            /\ delivered' = delivered
       /\ \A p \in pubPending : PublishAck(p) =>
            /\ ret' = Ret("publish", "acknowledged", NoConn)
            /\ p \notin pubPending'
            /\ subscribers' = subscribers /\ publishers' = publishers
            /\ delivered' = delivered
       /\ \A p \in pubPending' \ pubPending :
            /\ redis_params[p.t] /\ p.m = nextMsg
            /\ \A c \in Conns \ {p.origin} :
                   delivered'[p.m][c] = delivered[p.m][c] + Count(subscribers[p.t], c)]_vars

\* a publish on a bridged topic failed at PUBLISH; the topic's subscriber has
\* the event and is still subscribed
C15_Witness ==
    /\ ret = Ret("publish", "RedisUnavailableError", NoConn)
    /\ nextMsg > 1
    /\ \E t \in registry, c \in Conns :
        /\ redis_params[t] /\ Count(subscribers[t], c) = 1
        /\ delivered[nextMsg - 1][c] = 1

\* --------------------------------------------------------------------- C16
\* C16: the step that handles a receive error of topic t leaves t's publisher
\* map, the subscriber and publisher maps and the bridge state of every other
\* topic and the set of registered names as they were, and closes no
\* transport of a connection that holds no subscriber entry of t.
C16_ErrorConfined ==
    [][\A t \in TopicNames : ReceiveError(t) =>
        /\ publishers' = publishers
        /\ registry' = registry
        /\ \A u \in TopicNames \ {t} :
               /\ subscribers'[u] = subscribers[u]
               /\ subscriber_connection'[u] = subscriber_connection[u]
               /\ connected'[u] = connected[u] /\ armed'[u] = armed[u]
               /\ subscribeCalls'[u] = subscribeCalls[u] /\ brokerQ'[u] = brokerQ[u]
        /\ \A c \in Conns :
               /\ Count(subscribers[t], c) = 0 => closes'[c] = closes[c]
               /\ topicsOf'[c]["publisher"] = topicsOf[c]["publisher"]
               /\ \A u \in TopicNames \ {t} :
                      topicsOf'[c]["subscriber"][u] = topicsOf[c]["subscriber"][u]]_vars

\* a receive error dropped the subscriber of a bridged topic: a connection that
\* publishes on this topic and subscribes to another one is still in both
\* maps, and its transport was not closed
C16_Witness ==
    /\ ret.op = "on_redis_message" /\ ret.status = "error"
    /\ \E t \in TopicNames, u \in TopicNames, c \in Conns, d \in Conns :
        /\ u # t /\ c # d
        /\ redis_params[t] /\ subscribers[t] = EmptyMap
        /\ closes[c] = 1 /\ closes[d] = 0
        /\ Count(publishers[t], d) = 1 /\ Count(subscribers[u], d) = 1

\* --------------------------------------------------------------------- C17
\* what holds of an event published on this node whatever a subscriber is
\* taken to be: the envelope PUBLISH puts on the channel carries this node's
\* id, an envelope of another node carries a payload of its own, an envelope
\* with this node's id delivers nothing when it is received, and after the
\* publish step the deliveries of a payload change only when an envelope of
\* another node that carries it is received
EchoSuppressed ==
    /\ \A p \in pubPending : PublishAck(p) =>
           \A i \in 1..Len(brokerQ'[p.t]) :
               brokerQ'[p.t][i].m = p.m => brokerQ'[p.t][i].node = LocalNode
    /\ \A t \in TopicNames : \A e \in RemoteEnvelopes(t) :
           RemotePublish(t, e) => e.m = nextMsg /\ e.node # LocalNode
    /\ \A t \in TopicNames :
           (ReceiveMessage(t) /\ Head(brokerQ[t]).node = LocalNode) => delivered' = delivered
    /\ \A m \in Msgs :
           (m < nextMsg /\ delivered'[m] # delivered[m]) =>
               \E t \in TopicNames : /\ ReceiveMessage(t)
                                     /\ Head(brokerQ[t]).m = m
                                     /\ Head(brokerQ[t]).node # LocalNode

\* C17 as stated: an event published on a bridged topic through this node
\* reaches each local subscriber (connection) at most once in the whole run:
\* at most once in the publish step, never the originator, and the envelope
\* that comes back from redis delivers nothing.
C17_Original ==
    [][/\ EchoSuppressed
       /\ \A t \in TopicNames, o \in Conns :
            (Publish(t, o) /\ redis_params[t]) =>
                /\ delivered'[nextMsg][o] = 0
                /\ \A c \in Conns \ {o} : delivered'[nextMsg][c] <= 1]_vars

\* C17 amended: an event published on a bridged topic through this node is
\* delivered once per subscriber entry (subscription) and never again: in the
\* publish step every connection other than the originator gets one copy per
\* entry it holds, the originator none, and the envelope that comes back from
\* redis delivers nothing, to old and to new subscribers alike.
C17_OncePerEntry ==
    [][/\ EchoSuppressed
       /\ \A t \in TopicNames, o \in Conns :
            (Publish(t, o) /\ redis_params[t]) =>
                /\ delivered'[nextMsg][o] = 0
                /\ \A c \in Conns \ {o} :
                       delivered'[nextMsg][c] = Count(subscribers[t], c)]_vars

\* the envelope of a local publish came back and was discarded: the subscriber
\* has the event once, the originator, a subscriber too, does not have it
C17_Witness ==
    /\ ret.op = "on_redis_message" /\ ret.status = "discarded"
    /\ \E t \in TopicNames, c \in Conns, o \in Conns, m \in Msgs :
        /\ c # o /\ redis_params[t]
        /\ Count(subscribers[t], c) = 1 /\ Count(subscribers[t], o) = 1
        /\ delivered[m][c] = 1 /\ delivered[m][o] = 0

\* --------------------------------------------------------------------- C18
\* C18: no step takes a name out of the registry, whatever becomes of the
\* topic's maps, and a completed add_subscriber or add_publisher on a name
\* leaves that name in the registry.
C18_RegistryGrows ==
    [][/\ registry \subseteq registry'
       /\ \A t \in TopicNames, c \in Conns, sid \in Ids :
              (AddSubscriber(t, c, sid) \/ AddPublisher(t, c, sid)) => t \in registry'
       /\ \A k \in 1..MaxPending : SubscribeDone(k) => calls[k].t \in registry']_vars

\* the only subscriber of a topic without publishers was removed: both maps
\* are empty and the name is still registered
C18_Witness ==
    /\ ret.op = "remove_subscriber"
    /\ \E t \in registry :
        /\ ~redis_params[t]
        /\ subscribers[t] = EmptyMap /\ publishers[t] = EmptyMap
        /\ \E c \in Conns : delivered[1][c] = 1

\* --------------------------------------------------------------------- C19
\* C19: whenever a topic with redis parameters has a subscriber entry, its
\* SUBSCRIBE has been sent and acknowledged and a receive is outstanding;
\* this covers subscribers that come while the first setup is in flight,
\* after a failed setup, and after a receive error.
C19_Claim ==
    \A t \in TopicNames :
        (redis_params[t] /\ Entries(subscribers[t]) # {}) =>
            /\ subscribeCalls[t] = 1
            /\ armed[t] = 1

\* --------------------------------------------------------------------- C20
\* C20: a connection's reverse index names id s for role r and topic t only
\* if t is registered and holds the connection under s in its map of role r,
\* and every entry of a subscriber or publisher map is named by the reverse
\* index of the connection it holds.
MapOf(r) == IF r = "subscriber" THEN subscribers ELSE publishers

C20_Claim ==
    \A c \in Conns, r \in Roles, t \in TopicNames :
        /\ topicsOf[c][r][t] # NoId =>
               (t \in registry /\ MapOf(r)[t][topicsOf[c][r][t]] = c)
        /\ \A s \in Ids : MapOf(r)[t][s] = c => topicsOf[c][r][t] = s

====
